---- MODULE Spec2Model ----
(***************************************************************************)
(* Model of the SentimentAnalyzer application.                             *)
(*                                                                         *)
(*  - the image screen (ImageSentiment): handlePickImage, loadModel,       *)
(*    preprocessImage, runInference, handleClearImage and the React state  *)
(*    they read and write;                                                 *)
(*  - the text screen (App in app/index.tsx): handleAnalyze, handleClear,  *)
(*    setText, analyzeSentiment;                                           *)
(*  - the decoding arithmetic of runInference as a pure operator.          *)
(*                                                                         *)
(* Numbers.  A score is a rational number held as an integer count of      *)
(* 1/ScoreDen, so that score * 100 * 100 can fall exactly between two      *)
(* integers and Math.round has something to round.  A confidence is held   *)
(* as an integer count of 1/100 (the value Math.round(...) / 100).  The    *)
(* JavaScript values NaN and undefined are kept apart from the numbers.    *)
(* Binary floating-point representation error is not modelled.             *)
(***************************************************************************)
EXTENDS Integers, Sequences, FiniteSets, TLC

\* ------------------------------------------------------------------------
\* Bounds of the model
\* ------------------------------------------------------------------------
MaxScore == 2       \* small scores range over -MaxScore..MaxScore units
MaxLen == 4         \* longest model output vector that is enumerated
MaxReq == 2         \* handlePickImage invocations over the life of the screen
MaxText == 2        \* longest text, in tokens, that is typed

\* ------------------------------------------------------------------------
\* Numbers
\* ------------------------------------------------------------------------
\* score units per 1.0: twice the 100 * 100 factor of part_000 line 89, so
\* that score * 100 * 100 = v / 2 for a score of v units
ScoreDen == 2 * 100 * 100

Num(k) == [isNaN |-> FALSE, v |-> k]
NaN == [isNaN |-> TRUE, v |-> 0]

\* the numeric scores that are enumerated: around 0, 1.0 and just above 1.0
ScoreInts == (-MaxScore..MaxScore) \cup {ScoreDen, ScoreDen + 1}
ScoreVals == {Num(k) : k \in ScoreInts} \cup {NaN}

RECURSIVE SeqsUpTo(_, _)
SeqsUpTo(S, n) ==
  IF n = 0 THEN {<<>>}
  ELSE LET shorter == SeqsUpTo(S, n - 1)
       IN shorter \cup {Append(s, x) : s \in {t \in shorter : Len(t) = n - 1}, x \in S}

Vectors == SeqsUpTo(ScoreVals, MaxLen)

\* ------------------------------------------------------------------------
\* runInference: decoding of the score vector (part_000 lines 83-95)
\* ------------------------------------------------------------------------
sentimentLabels == <<"Negative", "Neutral", "Positive">>
LabelSet == {sentimentLabels[i] : i \in 1..Len(sentimentLabels)}
Undefined == "undefined"

\* Math.max(...scores): NaN as soon as one argument is NaN
MathMax(s) ==
  IF \E i \in 1..Len(s) : s[i].isNaN THEN NaN
  ELSE Num(CHOOSE m \in {s[i].v : i \in 1..Len(s)} :
             \A i \in 1..Len(s) : s[i].v <= m)

\* ===: NaN is equal to nothing, itself included
StrictEq(a, b) == ~a.isNaN /\ ~b.isNaN /\ a.v = b.v

lastIndexOf(s, x) ==
  LET hits == {i \in 1..Len(s) : StrictEq(s[i], x)}
  IN IF hits = {} THEN -1
     ELSE (CHOOSE i \in hits : \A j \in hits : j <= i) - 1

\* Array.prototype.indexOf: 0-based index of the first strictly equal
\* element, -1 when there is none
indexOf(s, x) ==
  LET hits == {i \in 1..Len(s) : StrictEq(s[i], x)}
  IN IF hits = {} THEN -1
     ELSE (CHOOSE i \in hits : \A j \in hits : i <= j) - 1

\* sentimentLabels[maxIdx]: undefined outside 0..2
LabelAt(idx) ==
  IF idx >= 0 /\ idx < Len(sentimentLabels) THEN sentimentLabels[idx + 1]
  ELSE Undefined

\* Math.round(x) for x = k / 2: the nearest integer, halves towards +infinity
MathRoundHalf(k) == (k + 1) \div 2

\* Math.round(scores[maxIdx] * 100 * 100) / 100, in hundredths;
\* scores[-1] is undefined and undefined * 100 is NaN
Confidence(s, idx) ==
  IF idx < 0 \/ idx >= Len(s) THEN NaN
  ELSE IF s[idx + 1].isNaN THEN NaN
  ELSE Num(MathRoundHalf((s[idx + 1].v * 2 * 100 * 100) \div ScoreDen))

InferenceErrorMsg == "Failed to analyze sentiment"
NoSentiment == "none"

Thrown(msg) == [ok |-> FALSE, sentiment |-> NoSentiment, confidence |-> NaN,
                error |-> msg]

\* the value runInference returns, or the error it throws, once
\* modelInstance.forward has resolved with `scores` as output.data();
\* NoData stands for a null output or data() returning nothing
NoData == <<[isNaN |-> TRUE, v |-> -1]>>

runInferenceDecode(s) ==
  IF s = NoData \/ Len(s) = 0 THEN Thrown(InferenceErrorMsg)
  ELSE LET maxIdx == indexOf(s, MathMax(s))
       IN [ok |-> TRUE, sentiment |-> LabelAt(maxIdx),
           confidence |-> Confidence(s, maxIdx), error |-> "none"]

\* ------------------------------------------------------------------------
\* State
\* ------------------------------------------------------------------------
VARIABLES
  scores,     \* decoding on its own: the vector handed to runInference
  decoded,    \* decoding on its own: what runInference made of it
  imageUri,   \* ImageSentiment: useState imageUri (part_000 line 34)
  result,     \* ImageSentiment: useState result (line 35)
  isLoading,  \* ImageSentiment: useState isLoading (line 36)
  model,      \* ImageSentiment: useState model (line 37); the handles of
              \* the one model file are not told apart
  reqs,       \* the invocations of handlePickImage, in the order of the presses
  gen,        \* how many invocations have reached line 131
  text,       \* App: useState text (index.tsx line 151)
  txtResult,  \* App: useState result (line 152)
  loading,    \* App: useState loading (line 153)
  fade,       \* App: the value fadeAnim is at or animating to (line 154)
  pending,    \* App: the text of the analyzeSentiment call under way
  lastCall,   \* App: what the last invocation of handleAnalyze did
  cleared     \* App: Clear was pressed (line 213) and no analysis has been
              \* started by a press of Analyze since

dvars == <<scores, decoded>>
ivars == <<imageUri, result, isLoading, model, reqs, gen>>
tvars == <<text, txtResult, loading, fade, pending, lastCall, cleared>>
vars == <<scores, decoded, imageUri, result, isLoading, model, reqs, gen,
          text, txtResult, loading, fade, pending, lastCall, cleared>>

\* ------------------------------------------------------------------------
\* Values of the state, and the state after construction
\* ------------------------------------------------------------------------
NotRun == [ok |-> FALSE, sentiment |-> NoSentiment, confidence |-> NaN,
           error |-> "not run"]

Null == "null"
Loaded == "handle"  \* `model` once setModel has run
\* a displayed result: `req` is the invocation that committed it, in the
\* place of the timestamp (new Date(), line 94), which is not modelled
NoResult == [sentiment |-> NoSentiment, confidence |-> NaN, req |-> 0]
NoAlert == <<>>

Reqs == 1..MaxReq

\* one invocation of handlePickImage
\*   pc        where the handler is: "idle" (not invoked), "picking" (line
\*             111), "joining" (line 136), "inferring" (line 141), "done"
\*   capModel  the `model` of the render whose loadModel the handler closed
\*             over (lines 47-60, 155)
\*   alone     no other invocation was under way when this one began
\*   pre, load, inf   the calls of preprocessImage, loadModel, runInference:
\*             "idle" (not called), "pending", "ok", "err"
\*   first     the error of the first of preprocessImage and loadModel to
\*             throw, as thrown to Promise.all
\*   loadAlert the Alert of line 57 was raised
\*   caught    the message of the error the catch of line 146 received
\*   alert     title and message of the Alert handlePickImage raised
\*   committed line 143-144 ran
\*   startSeq  value of gen when line 131 ran (0: not yet)
\*   prevUri, prevResult   imageUri and result just before line 131 ran
IdleReq == [pc |-> "idle", capModel |-> Null, alone |-> TRUE, uri |-> Null,
            pre |-> "idle", load |-> "idle", inf |-> "idle",
            first |-> "none", loadAlert |-> FALSE,
            caught |-> "none", alert |-> NoAlert, committed |-> FALSE,
            startSeq |-> 0, prevUri |-> Null, prevResult |-> NoResult]

IdleImageScreen ==
  /\ imageUri = Null
  /\ result = NoResult
  /\ isLoading = FALSE
  /\ model = Null
  /\ reqs = [r \in Reqs |-> IdleReq]
  /\ gen = 0

\* the text screen's result: `of` is the text that was analysed
NoPending == <<"none">>
NoTxtResult == [sentiment |-> NoSentiment, confidence |-> 0, emoji |-> "", of |-> NoPending]

IdleTextScreen ==
  /\ text = <<>>
  /\ txtResult = NoTxtResult
  /\ loading = FALSE
  /\ fade = 0
  /\ pending = NoPending
  /\ lastCall = "none"
  /\ cleared = FALSE

DecodeInit ==
  /\ scores \in Vectors
  /\ decoded = NotRun
  /\ IdleImageScreen
  /\ IdleTextScreen

Decode ==
  /\ decoded = NotRun
  /\ decoded' = runInferenceDecode(scores)
  /\ UNCHANGED <<scores, ivars, tvars>>

DecodeNext == Decode

DecodeSpec == DecodeInit /\ [][DecodeNext]_vars

\* ------------------------------------------------------------------------
\* The image screen (part_000)
\* ------------------------------------------------------------------------
\* the uri of the asset the picker returns
Uris == {"file:a.jpg"}

\* what launchImageLibrary can resolve with, besides an asset with a uri
PickerFailures == {"didCancel", "errorMessage", "noAssets", "noUri"}

\* the errors the native libraries raise
RawLoadError == "torch: cannot load model"
RawPreprocessError == "TensorImage: cannot decode image"
RawForwardError == "torch: forward failed"

PreprocessErrorMsg == "Failed to process the image"

\* the outputs of modelInstance.forward that the screen is driven with:
\* no data, an empty vector, (0.00005, 0.0001, 1.0), four scores with the
\* largest last, and a vector holding NaN
ImageOutputs ==
  { NoData,
    <<>>,
    <<Num(1), Num(2), Num(ScoreDen)>>,
    <<Num(0), Num(0), Num(0), Num(1)>>,
    <<NaN, Num(1), Num(2)>> }

\* the error each function hands to its caller for the error it caught
loadModelCatch(e) == e
preprocessImageCatchAsInference(e) == InferenceErrorMsg
preprocessImageCatch(e) == PreprocessErrorMsg
runInferenceCatch(e) == InferenceErrorMsg

\* Promise.all of line 136: resolved once both promises are, rejected as
\* soon as one of them is
PromiseAllResolvedEarly(q) == q.pre = "ok"
PromiseAllResolved(q) == q.pre = "ok" /\ q.load = "ok"
PromiseAllRejectedLate(q) ==
  /\ q.pre \in {"ok", "err"}
  /\ q.load \in {"ok", "err"}
  /\ (q.pre = "err" \/ q.load = "err")
PromiseAllRejected(q) == q.pre = "err" \/ q.load = "err"
\* it rejects with the error of the first promise to reject
PromiseAllReason(q) == q.first

\* the catch of lines 146-151, on the invocation and on the displayed state
handlePickImageCatch(q, e) ==
  [q EXCEPT !.pc = "done", !.caught = e, !.alert = <<"Analysis Failed", e>>]

Displayed == [imageUri |-> imageUri, result |-> result, isLoading |-> isLoading]
Display(u) ==
  /\ imageUri' = u.imageUri
  /\ result' = u.result
  /\ isLoading' = u.isLoading

\* the displayed state after the catch of lines 146-151: it sets none
CatchClearsDisplay(u) == [u EXCEPT !.imageUri = Null, !.result = NoResult]
CatchDisplay(u) == u

\* finally (line 153)
Finally(u) == [u EXCEPT !.isLoading = FALSE]

\* the press of "Pick an Image" (line 193), enabled while not loading
\* (line 194): handlePickImage runs up to the await of line 111
Press(r) ==
  /\ ~isLoading
  /\ reqs[r].pc = "idle"
  /\ \A q \in Reqs : q < r => reqs[q].pc # "idle"
  /\ reqs' = [reqs EXCEPT ![r] =
       [@ EXCEPT !.pc = "picking", !.capModel = model,
                 !.alone = \A q \in Reqs : reqs[q].pc \in {"idle", "done"}]]
  /\ UNCHANGED <<imageUri, result, isLoading, model, gen>>
  /\ UNCHANGED <<dvars, tvars>>

\* the Alert of lines 115, 121, 127, by its title; none on a cancel
EarlyAlert(resp) == IF resp = "didCancel" THEN NoAlert ELSE <<"Error">>

\* lines 113-129: the picker gave no usable image; return through finally
PickerGivesNothing(r, resp) ==
  /\ reqs[r].pc = "picking"
  /\ reqs' = [reqs EXCEPT ![r] = [@ EXCEPT !.pc = "done", !.alert = EarlyAlert(resp)]]
  /\ Display(Finally(Displayed))
  /\ UNCHANGED <<model, gen>>
  /\ UNCHANGED <<dvars, tvars>>

\* loadModel (lines 47-54) up to its first await: the cached handle when the
\* closure has one, else torch.jit._loadForMobile is called
loadModelStart(m) == IF m = Null THEN "pending" ELSE "ok"

\* lines 131-139: the picker gave a uri; show it, clear the result, start
\* preprocessImage and loadModel
PickerGivesUri(r, uri) ==
  /\ reqs[r].pc = "picking"
  /\ imageUri' = uri
  /\ result' = NoResult
  /\ isLoading' = TRUE
  /\ gen' = gen + 1
  /\ reqs' = [reqs EXCEPT ![r] =
       [@ EXCEPT !.pc = "joining", !.uri = uri, !.pre = "pending",
                 !.load = loadModelStart(reqs[r].capModel),
                 !.startSeq = gen + 1,
                 !.prevUri = imageUri, !.prevResult = result]]
  /\ UNCHANGED model
  /\ UNCHANGED <<dvars, tvars>>

\* what follows, in the same turn of the event loop, the settling of
\* preprocessImage or loadModel in invocation r, q being r with the new
\* status: the join rejects into the catch, or resolves into runInference
\* (lines 141, 78-80), or keeps waiting, or r had left the join already
Settled(r, q) ==
  IF q.pc = "joining" /\ PromiseAllRejected(q)
  THEN /\ reqs' = [reqs EXCEPT ![r] = handlePickImageCatch(q, PromiseAllReason(q))]
       /\ Display(Finally(CatchDisplay(Displayed)))
  ELSE IF q.pc = "joining" /\ PromiseAllResolved(q)
  THEN /\ reqs' = [reqs EXCEPT ![r] = [q EXCEPT !.pc = "inferring", !.inf = "pending"]]
       /\ UNCHANGED <<imageUri, result, isLoading>>
  ELSE /\ reqs' = [reqs EXCEPT ![r] = q]
       /\ UNCHANGED <<imageUri, result, isLoading>>

\* TensorImage.fromImage resolved, resize and normalize returned (64-71)
PreprocessResolve(r) ==
  /\ reqs[r].pre = "pending"
  /\ Settled(r, [reqs[r] EXCEPT !.pre = "ok"])
  /\ UNCHANGED <<model, gen>>
  /\ UNCHANGED <<dvars, tvars>>

\* preprocessImage threw (lines 72-75)
PreprocessReject(r) ==
  /\ reqs[r].pre = "pending"
  /\ Settled(r, [reqs[r] EXCEPT !.pre = "err",
                   !.first = IF @ = "none"
                             THEN preprocessImageCatch(RawPreprocessError) ELSE @])
  /\ UNCHANGED <<model, gen>>
  /\ UNCHANGED <<dvars, tvars>>

\* torch.jit._loadForMobile resolved: setModel, return (lines 50-52)
LoadResolve(r) ==
  /\ reqs[r].load = "pending"
  /\ model' = Loaded
  /\ Settled(r, [reqs[r] EXCEPT !.load = "ok"])
  /\ UNCHANGED gen
  /\ UNCHANGED <<dvars, tvars>>

\* torch.jit._loadForMobile rejected: alert and rethrow (lines 55-59)
LoadReject(r) ==
  /\ reqs[r].load = "pending"
  /\ Settled(r, [reqs[r] EXCEPT !.load = "err", !.loadAlert = TRUE,
                   !.first = IF @ = "none" THEN loadModelCatch(RawLoadError) ELSE @])
  /\ UNCHANGED <<model, gen>>
  /\ UNCHANGED <<dvars, tvars>>

\* modelInstance.forward resolved with `out` (lines 80-95, 141-144, 153)
ForwardResolve(r, out) ==
  /\ reqs[r].pc = "inferring"
  /\ LET res == runInferenceDecode(out)
     IN IF res.ok
        THEN /\ reqs' = [reqs EXCEPT ![r] =
                  [@ EXCEPT !.pc = "done", !.inf = "ok", !.committed = TRUE]]
             /\ Display(Finally([Displayed EXCEPT !.result =
                  [sentiment |-> res.sentiment, confidence |-> res.confidence,
                   req |-> r]]))
        ELSE /\ reqs' = [reqs EXCEPT ![r] =
                  handlePickImageCatch([@ EXCEPT !.inf = "err"],
                                       runInferenceCatch("Invalid model output"))]
             /\ Display(Finally(CatchDisplay(Displayed)))
  /\ UNCHANGED <<model, gen>>
  /\ UNCHANGED <<dvars, tvars>>

\* modelInstance.forward rejected (lines 96-99, 146-153)
ForwardReject(r) ==
  /\ reqs[r].pc = "inferring"
  /\ reqs' = [reqs EXCEPT ![r] =
       handlePickImageCatch([@ EXCEPT !.inf = "err"],
                            runInferenceCatch(RawForwardError))]
  /\ Display(Finally(CatchDisplay(Displayed)))
  /\ UNCHANGED <<model, gen>>
  /\ UNCHANGED <<dvars, tvars>>

\* the press of "Clear", shown with an image while not loading (209-217)
handleClearImage ==
  /\ imageUri # Null
  /\ ~isLoading
  /\ imageUri' = Null
  /\ result' = NoResult
  /\ UNCHANGED <<isLoading, model, reqs, gen>>
  /\ UNCHANGED <<dvars, tvars>>

ImageInit ==
  /\ scores = <<>>
  /\ decoded = NotRun
  /\ IdleImageScreen
  /\ IdleTextScreen

Next ==
  \/ \E r \in Reqs : Press(r)
  \/ \E r \in Reqs, resp \in PickerFailures : PickerGivesNothing(r, resp)
  \/ \E r \in Reqs, uri \in Uris : PickerGivesUri(r, uri)
  \/ \E r \in Reqs : PreprocessResolve(r)
  \/ \E r \in Reqs : PreprocessReject(r)
  \/ \E r \in Reqs : LoadResolve(r)
  \/ \E r \in Reqs : LoadReject(r)
  \/ \E r \in Reqs, out \in ImageOutputs : ForwardResolve(r, out)
  \/ \E r \in Reqs : ForwardReject(r)
  \/ handleClearImage

Spec == ImageInit /\ [][Next]_vars

\* ------------------------------------------------------------------------
\* The text screen (app/index.tsx)
\* ------------------------------------------------------------------------
\* A text is a sequence of tokens: a token is a space, a line break, or a
\* run of letters; adjacent runs read as one longer run.
Space == " "
LineBreak == "\n"
Tokens == {Space, LineBreak, "Good", "sad"}
Texts == SeqsUpTo(Tokens, MaxText)

IsWhitespace(tok) == tok \in {Space, LineBreak}

\* String.prototype.trim: whitespace removed at both ends
RECURSIVE trimStart(_)
trimStart(t) ==
  IF t # <<>> /\ IsWhitespace(Head(t)) THEN trimStart(Tail(t)) ELSE t

RECURSIVE trimEnd(_)
trimEnd(t) ==
  IF t # <<>> /\ IsWhitespace(t[Len(t)]) THEN trimEnd(SubSeq(t, 1, Len(t) - 1))
  ELSE t

noTrim(t) == t
trim(t) == trimEnd(trimStart(t))

\* !text.trim(): the empty string is the only falsy string
IsBlank(t) == trim(t) = <<>>

\* String.prototype.toLowerCase on a token
toLowerCase(tok) == IF tok = "Good" THEN "good" ELSE tok

\* text.toLowerCase().split(' '): the pieces between spaces, each piece the
\* sequence of the tokens it is made of
RECURSIVE split(_, _)
split(t, piece) ==
  IF t = <<>> THEN <<piece>>
  ELSE IF Head(t) = Space THEN <<piece>> \o split(Tail(t), <<>>)
  ELSE split(Tail(t), Append(piece, toLowerCase(Head(t))))

positiveWords == {"good", "great", "awesome", "amazing", "love", "excellent",
                  "wonderful", "fantastic", "happy", "joy"}
negativeWords == {"bad", "terrible", "awful", "hate", "horrible", "sad",
                  "angry", "disappointed", "frustrated"}

\* a piece is a listed word when it is one run of letters that is listed
PieceIn(piece, words) == Len(piece) = 1 /\ piece[1] \in words

RECURSIVE wordScore(_)
wordScore(words) ==
  IF words = <<>> THEN 0
  ELSE (IF PieceIn(Head(words), positiveWords) THEN 1 ELSE 0)
       - (IF PieceIn(Head(words), negativeWords) THEN 1 ELSE 0)
       + wordScore(Tail(words))

Min(a, b) == IF a <= b THEN a ELSE b
Abs(a) == IF a < 0 THEN -a ELSE a

\* analyzeSentiment after its delay (lines 99-109); confidence in hundredths
analyzeSentiment(t) ==
  LET score == wordScore(split(t, <<>>))
  IN IF score > 0
     THEN [sentiment |-> "Positive", confidence |-> Min(70 + score * 10, 95),
           emoji |-> "smile", of |-> t]
     ELSE IF score < 0
     THEN [sentiment |-> "Negative", confidence |-> Min(70 + Abs(score) * 10, 95),
           emoji |-> "pensive", of |-> t]
     ELSE [sentiment |-> "Neutral", confidence |-> 60, emoji |-> "neutral",
           of |-> t]

\* onChangeText={setText} (line 205)
setText(t) ==
  /\ text' = t
  /\ t # text
  /\ UNCHANGED <<txtResult, loading, fade, pending, lastCall, cleared>>
  /\ UNCHANGED <<dvars, ivars>>

\* handleAnalyze up to its await (lines 156-163).  The Analyze button is
\* disabled while loading (line 221).  It is also disabled while the text is
\* blank; the handler makes that test again at line 157, and it is the
\* handler's test that is modelled, so that an invocation with a blank text
\* is a step.
handleAnalyze ==
  /\ ~loading
  /\ IF trim(text) = <<>>
     THEN /\ lastCall' = "returned"
          /\ UNCHANGED <<txtResult, loading, pending, cleared>>
     ELSE /\ lastCall' = "started"
          /\ cleared' = FALSE
          /\ loading' = TRUE
          /\ txtResult' = NoTxtResult
          /\ pending' = text
  /\ UNCHANGED <<text, fade>>
  /\ UNCHANGED <<dvars, ivars>>

\* analyzeSentiment resolved: lines 164-171 and the finally of line 175
AnalyzeResolve ==
  /\ pending # NoPending
  /\ txtResult' = analyzeSentiment(pending)
  /\ fade' = 1
  /\ loading' = FALSE
  /\ pending' = NoPending
  /\ UNCHANGED <<text, lastCall, cleared>>
  /\ UNCHANGED <<dvars, ivars>>

\* the press of Clear (lines 179-183), enabled while the text is not blank
\* (line 214)
handleClear ==
  /\ ~IsBlank(text)
  /\ text' = <<>>
  /\ txtResult' = NoTxtResult
  /\ fade' = 0
  /\ cleared' = TRUE
  /\ UNCHANGED <<loading, pending, lastCall>>
  /\ UNCHANGED <<dvars, ivars>>

TextInit ==
  /\ scores = <<>>
  /\ decoded = NotRun
  /\ IdleImageScreen
  /\ IdleTextScreen

TextNext ==
  \/ \E t \in Texts : setText(t)
  \/ handleAnalyze
  \/ AnalyzeResolve
  \/ handleClear

TextSpec == TextInit /\ [][TextNext]_vars

\* ------------------------------------------------------------------------
\* Properties of the decoding (under DecodeSpec)
\* ------------------------------------------------------------------------
AllNumbers(s) == \A i \in 1..Len(s) : ~s[i].isNaN

\* C1: for a vector of three numbers, the sentiment runInference returns is
\* the label at the lowest index that holds the maximum score, in the order
\* Negative, Neutral, Positive.
C1_FirstMaxLabel ==
  (decoded # NotRun /\ Len(scores) = 3 /\ AllNumbers(scores)) =>
    /\ decoded.ok
    /\ \E i \in 1..3 :
         /\ \A j \in 1..3 : scores[j].v <= scores[i].v
         /\ \A j \in 1..(i - 1) : scores[j].v < scores[i].v
         /\ decoded.sentiment = sentimentLabels[i]

\* a maximum tied between Neutral and Positive was decoded as Neutral
C1_Witness ==
  /\ decoded.ok
  /\ Len(scores) = 3 /\ AllNumbers(scores)
  /\ scores[1].v < scores[2].v
  /\ scores[2].v = scores[3].v
  /\ decoded.sentiment = "Neutral"

\* C2: for every vector of numbers that runInference accepts, whatever the
\* range of its values, the confidence returned lies in [0,100] (0..10000
\* hundredths).
C2_ConfidenceInRange ==
  (decoded.ok /\ AllNumbers(scores)) =>
    /\ ~decoded.confidence.isNaN
    /\ decoded.confidence.v >= 0
    /\ decoded.confidence.v <= 100 * 100

\* ------------------------------------------------------------------------
\* Properties of the image screen (under Spec)
\* ------------------------------------------------------------------------
\* C3: every result setResult commits has a sentiment that is one of
\* Negative, Neutral, Positive and a confidence that is a number (an output
\* of another length than 3, or holding a non-number, commits nothing).
C3_CommittedResultWellFormed ==
  result # NoResult =>
    /\ result.sentiment \in LabelSet
    /\ ~result.confidence.isNaN

\* C4: in every invocation preprocessImage and loadModel are started
\* together, runInference is started only after both have succeeded, and a
\* result is committed only after runInference has succeeded.
C4_PipelineOrder ==
  /\ \A r \in Reqs :
       /\ (reqs[r].pre = "idle") <=> (reqs[r].load = "idle")
       /\ reqs[r].inf # "idle" => (reqs[r].pre = "ok" /\ reqs[r].load = "ok")
       /\ reqs[r].committed => reqs[r].inf = "ok"
  /\ result # NoResult => reqs[result.req].inf = "ok"

\* an invocation went through the join and the inference and committed
C4_Witness ==
  \E r \in Reqs :
    /\ reqs[r].committed
    /\ reqs[r].capModel = Null
    /\ result # NoResult /\ result.req = r

\* the invocations in which some stage threw
Failed(q) == q.pre = "err" \/ q.load = "err" \/ q.inf = "err"

\* C5 as claimed: the error a stage raised is the very error the catch of
\* handlePickImage receives.
C5_ErrorsReachCatchUnchanged ==
  \A r \in Reqs :
    /\ reqs[r].pre = "err" => reqs[r].caught = RawPreprocessError
    /\ reqs[r].load = "err" => reqs[r].caught = RawLoadError
    /\ reqs[r].inf = "err" =>
         reqs[r].caught \in {RawForwardError, "Invalid model output"}

\* C5, amended: an invocation in which a stage threw ends in the catch of
\* handlePickImage with one error, that of the first stage to throw, whose
\* message tells the stage (the loader's own error, "Failed to process the
\* image", "Failed to analyze sentiment"); it commits no result, and no
\* stage that has settled is run again.
C5_ErrorKinds ==
  \A r \in Reqs :
    /\ Failed(reqs[r]) =>
         /\ reqs[r].pc = "done"
         /\ ~reqs[r].committed
         /\ reqs[r].caught =
              (IF reqs[r].inf = "err" THEN InferenceErrorMsg ELSE reqs[r].first)
         /\ reqs[r].alert = <<"Analysis Failed", reqs[r].caught>>
    /\ reqs[r].caught \in
         {"none", RawLoadError, PreprocessErrorMsg, InferenceErrorMsg}
    /\ reqs[r].caught = RawLoadError => reqs[r].load = "err"
    /\ reqs[r].caught = PreprocessErrorMsg => reqs[r].pre = "err"
    /\ reqs[r].caught = InferenceErrorMsg => reqs[r].inf = "err"

C5_NoRetry ==
  \A r \in Reqs :
    /\ reqs[r].pre \in {"ok", "err"} => reqs'[r].pre = reqs[r].pre
    /\ reqs[r].load \in {"ok", "err"} => reqs'[r].load = reqs[r].load
    /\ reqs[r].inf \in {"ok", "err"} => reqs'[r].inf = reqs[r].inf

C5_FirstErrorReachesCatchByKind == [](C5_ErrorKinds) /\ [][C5_NoRetry]_vars

\* preprocessing threw first and reached the catch; the loader threw later
C5_Witness ==
  \E r \in Reqs :
    /\ reqs[r].pre = "err"
    /\ reqs[r].load = "err"
    /\ reqs[r].loadAlert
    /\ reqs[r].caught = PreprocessErrorMsg

\* C6: when preprocessImage throws before loadModel has thrown, the
\* invocation is over at once, rejected with the preprocessing error,
\* whether the load is still pending, has resolved, or fails later; and
\* runInference is never called in an invocation whose preprocessing threw.
C6_PreprocessFailureShortCircuits ==
  \A r \in Reqs :
    reqs[r].pre = "err" =>
      /\ reqs[r].pc = "done"
      /\ reqs[r].inf = "idle"
      /\ ~reqs[r].committed
      /\ (reqs[r].load \in {"pending", "ok"} \/ reqs[r].first = PreprocessErrorMsg) =>
           reqs[r].caught = PreprocessErrorMsg

\* rejected with the preprocessing error while the load is still pending
C6_Witness ==
  \E r \in Reqs :
    /\ reqs[r].pre = "err"
    /\ reqs[r].load = "pending"
    /\ reqs[r].pc = "done"
    /\ reqs[r].caught = PreprocessErrorMsg

\* the invocations that called torch.jit._loadForMobile, and did not see it
\* fail
LoadsNotFailed ==
  {r \in Reqs : reqs[r].load \in {"pending", "ok"} /\ reqs[r].capModel = Null}

\* C7: over a sequence of analyses, each begun with no other under way, the
\* model is loaded at most once: at most one call of _loadForMobile is
\* pending or has succeeded.
C7_LoadAtMostOnce ==
  (\A r \in Reqs : reqs[r].alone) => Cardinality(LoadsNotFailed) <= 1

\* a later invocation has reached line 131 after r did, r having been
\* started by the earlier press
Stale(r) ==
  \E q \in Reqs : q > r /\ reqs[q].startSeq > reqs[r].startSeq

\* C8: the displayed result is never that of an analysis that is not the
\* latest one.
C8_NoStaleResult ==
  result # NoResult => ~Stale(result.req)

\* the step in which invocation r ends in the catch of handlePickImage
FailsNow(r) ==
  /\ reqs[r].pc \in {"joining", "inferring"}
  /\ reqs'[r].pc = "done"
  /\ reqs'[r].caught # "none"

\* C9 as claimed: once an analysis has failed, the image and the result
\* shown are those shown before the request.
C9_FailureRestoresPriorState ==
  [][\A r \in Reqs :
       FailsNow(r) => (imageUri' = reqs[r].prevUri /\ result' = reqs[r].prevResult)]_vars

\* C9, amended: when an analysis fails, the "Analysis Failed" notice is
\* raised and the failure changes neither the image nor the result shown:
\* the image picked for the request stays, and the result stays as it was
\* when the failure occurred; only isLoading is reset.
C9_FailureLeavesDisplay ==
  [][\A r \in Reqs :
       FailsNow(r) =>
         /\ imageUri' = imageUri
         /\ result' = result
         /\ isLoading' = FALSE
         /\ reqs'[r].alert = <<"Analysis Failed", reqs'[r].caught>>]_vars

\* a failed analysis, its image shown, the result shown before it gone
C9_Witness ==
  \E r \in Reqs :
    /\ reqs[r].pc = "done"
    /\ reqs[r].caught # "none"
    /\ reqs[r].prevResult # NoResult
    /\ imageUri = reqs[r].uri
    /\ result = NoResult

OnlyWhitespace(t) == \A i \in 1..Len(t) : IsWhitespace(t[i])

C10_NoBlankAnalysis ==
  /\ pending # NoPending => ~OnlyWhitespace(pending)
  /\ txtResult # NoTxtResult => ~OnlyWhitespace(txtResult.of)

C10_BlankCallReturns ==
  (OnlyWhitespace(text) /\ lastCall' # lastCall) =>
    /\ lastCall' = "returned"
    /\ UNCHANGED <<text, txtResult, loading, fade, pending>>

C11_ClearedResultStaysNull == cleared => txtResult = NoTxtResult

====
